---- MODULE Spec2Model ----
(***************************************************************************)
(* Model of the placement Board of src/src/solver/mod.rs: the resource and *)
(* entity catalogs, the three relation maps, the assignment map, the five  *)
(* insertion operations and check_violation.                               *)
(*                                                                         *)
(* A HashMap<String, V> is a function whose DOMAIN is the key set; a       *)
(* HashSet<String> is a set.  A failed assert!/expect is a panic: ret      *)
(* becomes "Abort" and the Board takes no further call.                    *)
(***************************************************************************)
EXTENDS Naturals, FiniteSets, Sequences, TLC

VARIABLES
    resources,              \* Board.resources: id -> Resource
    entities,               \* Board.entities: id -> Entity
    id_relations,           \* Board.id_relations: id -> IDRelation
    property_relations,     \* Board.property_relations: id -> PropertyRelation
    id_property_relations,  \* Board.id_property_relations: id -> IDPropertyRelation
    assignment,             \* Board.assignment: entity id -> resource id
    op,                     \* the last call made on the Board
    arg,                    \* the argument(s) of the last call
    ret,                    \* what the last call returned, or "Abort"
    property_violation,     \* the set returned by the last check_violation
    record                  \* the Resource or Entity a caller is building

vars == <<resources, entities, id_relations, property_relations,
          id_property_relations, assignment, op, arg, ret, property_violation,
          record>>

board == <<resources, entities, id_relations, property_relations,
           id_property_relations, assignment>>

----------------------------------------------------------------------------
(* Bounds and the values the callers pass.                                 *)

\* Insertion calls are made while the Board holds fewer than MaxItems records.
MaxItems == 4

ResourceIds == {"node1", "node2"}
EntityIds == {"app1", "app2"}
RelationIds == {"color"}
Properties == {"red", "blue"}

\* A HashMap with no key.
EmptyMap == [x \in {} |-> x]

\* no record is being built
NoRecord == [type |-> "none"]

\* pub enum IDRelationKind
EEKinds == {"EEAffinity", "EEAntiAffinity"}
ERKinds == {"ERAffinity", "ERAntiAffinity"}
IDRelationKind == EEKinds \cup ERKinds

\* pub enum PropertyRelationKind
PropertyRelationKind == {"Affinity", "AntiAffinity"}

\* pub struct Resource
Resource ==
    [id : ResourceIds, properties : SUBSET Properties, capacities : {EmptyMap}]

\* pub struct Entity
Entity ==
    [id : EntityIds, properties : SUBSET Properties, metrics : {EmptyMap},
     move_cost : {0}]

\* pub struct IDRelation; id1 and id2 are any strings: here one that can name
\* an entity and one that can name a resource
IDRelation ==
    [id : RelationIds, kind : IDRelationKind,
     id1 : {"app1", "node1"}, id2 : {"app2", "node1"}]

\* pub struct PropertyRelation
PropertyRelation ==
    [id : RelationIds, kind : PropertyRelationKind,
     entity_property : Properties, resource_property : Properties]

\* pub struct IDPropertyRelation
IDPropertyRelation ==
    [id : RelationIds, entity_id : EntityIds \cup {"node1"},
     kind : PropertyRelationKind, resource_property : Properties]

----------------------------------------------------------------------------
(* HashMap operations.                                                     *)

contains_key(m, k) == k \in DOMAIN m

\* HashMap::insert: the value under k is replaced when k is already a key
insert(m, k, v) == [x \in DOMAIN m \cup {k} |-> IF x = k THEN v ELSE m[x]]

\* the number of records the Board holds
BoardSize ==
    Cardinality(DOMAIN resources) + Cardinality(DOMAIN entities)
    + Cardinality(DOMAIN id_relations) + Cardinality(DOMAIN property_relations)
    + Cardinality(DOMAIN id_property_relations)

----------------------------------------------------------------------------
\* Board::new
Init ==
    /\ resources = EmptyMap
    /\ entities = EmptyMap
    /\ id_relations = EmptyMap
    /\ property_relations = EmptyMap
    /\ id_property_relations = EmptyMap
    /\ assignment = EmptyMap
    /\ op = "new"
    /\ arg = EmptyMap
    /\ ret = "Ok"
    /\ property_violation = {}
    /\ record = NoRecord

\* add_resource without its contains_key test: the stored record is replaced
add_resource_overwrites(resource) ==
    /\ op' = "add_resource"
    /\ arg' = resource
    /\ property_violation' = {}
    /\ resources' = insert(resources, resource.id, resource)
    /\ ret' = "true"
    /\ UNCHANGED <<entities, id_relations, property_relations,
                   id_property_relations, assignment>>

\* Board::add_resource
add_resource(resource) ==
    /\ op' = "add_resource"
    /\ arg' = resource
    /\ property_violation' = {}
    /\ IF contains_key(resources, resource.id)
       THEN /\ ret' = "false"
            /\ UNCHANGED board
       ELSE /\ resources' = insert(resources, resource.id, resource)
            /\ ret' = "true"
            /\ UNCHANGED <<entities, id_relations, property_relations,
                           id_property_relations, assignment>>

\* add_entity that forgets the assignment map's entry
add_entity_unassigned(resource_id, entity) ==
    /\ op' = "add_entity"
    /\ arg' = [resource_id |-> resource_id, entity |-> entity]
    /\ property_violation' = {}
    /\ IF \/ ~contains_key(resources, resource_id)
          \/ contains_key(entities, entity.id)
       THEN /\ ret' = "false"
            /\ UNCHANGED board
       ELSE /\ entities' = insert(entities, entity.id, entity)
            /\ ret' = "true"
            /\ UNCHANGED <<resources, id_relations, property_relations,
                           id_property_relations, assignment>>

\* add_entity that passes the two strings of assignment.insert in the wrong
\* order
add_entity_swapped(resource_id, entity) ==
    /\ op' = "add_entity"
    /\ arg' = [resource_id |-> resource_id, entity |-> entity]
    /\ property_violation' = {}
    /\ IF \/ ~contains_key(resources, resource_id)
          \/ contains_key(assignment, entity.id)
          \/ contains_key(entities, entity.id)
       THEN /\ ret' = "false"
            /\ UNCHANGED board
       ELSE /\ entities' = insert(entities, entity.id, entity)
            /\ assignment' = insert(assignment, resource_id, entity.id)
            /\ ret' = "true"
            /\ UNCHANGED <<resources, id_relations, property_relations,
                           id_property_relations>>

\* add_entity without its test of the resource
add_entity_any_resource(resource_id, entity) ==
    \/ contains_key(assignment, entity.id)
    \/ contains_key(entities, entity.id)

\* add_entity that tests only the resource, so a registered entity is
\* replaced and moved
add_entity_reassigns(resource_id, entity) ==
    ~contains_key(resources, resource_id)

\* the early returns of Board::add_entity
add_entity_fails(resource_id, entity) ==
    \/ ~contains_key(resources, resource_id)
    \/ contains_key(assignment, entity.id)
    \/ contains_key(entities, entity.id)

\* Board::add_entity
add_entity(resource_id, entity) ==
    /\ op' = "add_entity"
    /\ arg' = [resource_id |-> resource_id, entity |-> entity]
    /\ property_violation' = {}
    /\ IF add_entity_fails(resource_id, entity)
       THEN /\ ret' = "false"
            /\ UNCHANGED board
       ELSE /\ entities' = insert(entities, entity.id, entity)
            /\ assignment' = insert(assignment, entity.id, resource_id)
            /\ ret' = "true"
            /\ UNCHANGED <<resources, id_relations, property_relations,
                           id_property_relations>>

\* add_id_relation whose ER branch looks id2 up among the entities, as the EE
\* branch does
add_id_relation_check_er_as_ee(relation) ==
    IF contains_key(id_relations, relation.id)
    THEN "AlreadyExists"
    ELSE IF \/ ~contains_key(entities, relation.id1)
            \/ ~contains_key(entities, relation.id2)
    THEN "NotFound"
    ELSE "Ok"

\* add_id_relation that validates the references before it looks for the id
add_id_relation_check_refs_first(relation) ==
    IF /\ relation.kind \in EEKinds
       /\ \/ ~contains_key(entities, relation.id1)
          \/ ~contains_key(entities, relation.id2)
    THEN "NotFound"
    ELSE IF /\ relation.kind \in ERKinds
            /\ \/ ~contains_key(entities, relation.id1)
               \/ ~contains_key(resources, relation.id2)
    THEN "NotFound"
    ELSE IF contains_key(id_relations, relation.id)
    THEN "AlreadyExists"
    ELSE "Ok"

\* add_id_relation without the validation of the ER kinds
add_id_relation_check_no_er(relation) ==
    IF contains_key(id_relations, relation.id)
    THEN "AlreadyExists"
    ELSE IF /\ relation.kind \in EEKinds
            /\ \/ ~contains_key(entities, relation.id1)
               \/ ~contains_key(entities, relation.id2)
    THEN "NotFound"
    ELSE "Ok"

\* the checks of Board::add_id_relation, in the order the code makes them
add_id_relation_check(relation) ==
    IF contains_key(id_relations, relation.id)
    THEN "AlreadyExists"
    ELSE IF /\ relation.kind \in EEKinds
            /\ \/ ~contains_key(entities, relation.id1)
               \/ ~contains_key(entities, relation.id2)
    THEN "NotFound"
    ELSE IF /\ relation.kind \in ERKinds
            /\ \/ ~contains_key(entities, relation.id1)
               \/ ~contains_key(resources, relation.id2)
    THEN "NotFound"
    ELSE "Ok"

\* Board::add_id_relation
add_id_relation(relation) ==
    /\ op' = "add_id_relation"
    /\ arg' = relation
    /\ property_violation' = {}
    /\ ret' = add_id_relation_check(relation)
    /\ IF add_id_relation_check(relation) = "Ok"
       THEN /\ id_relations' = insert(id_relations, relation.id, relation)
            /\ UNCHANGED <<resources, entities, property_relations,
                           id_property_relations, assignment>>
       ELSE UNCHANGED board

\* add_property_relation that validates entity_property against the
\* catalog, as the id-based insertions validate their ids
add_property_relation_validates(relation) ==
    /\ op' = "add_property_relation"
    /\ arg' = relation
    /\ property_violation' = {}
    /\ UNCHANGED <<resources, entities, id_relations,
                   id_property_relations, assignment>>
    /\ IF contains_key(property_relations, relation.id)
       THEN /\ ret' = "AlreadyExists"
            /\ UNCHANGED property_relations
       ELSE IF \A e \in DOMAIN entities :
                   relation.entity_property \notin entities[e].properties
       THEN /\ ret' = "NotFound"
            /\ UNCHANGED property_relations
       ELSE /\ property_relations' =
                   insert(property_relations, relation.id, relation)
            /\ ret' = "Ok"

\* Board::add_property_relation
add_property_relation(relation) ==
    /\ op' = "add_property_relation"
    /\ arg' = relation
    /\ property_violation' = {}
    /\ IF contains_key(property_relations, relation.id)
       THEN /\ ret' = "AlreadyExists"
            /\ UNCHANGED board
       ELSE /\ property_relations' =
                   insert(property_relations, relation.id, relation)
            /\ ret' = "Ok"
            /\ UNCHANGED <<resources, entities, id_relations,
                           id_property_relations, assignment>>

\* Board::add_id_property_relation: the insert is made before the assert on
\* what it returned, so a panic leaves the new relation under the id
add_id_property_relation(relation) ==
    /\ op' = "add_id_property_relation"
    /\ arg' = relation
    /\ property_violation' = {}
    /\ IF ~contains_key(entities, relation.entity_id)
       THEN /\ ret' = "NotFound"
            /\ UNCHANGED board
       ELSE /\ id_property_relations' =
                   insert(id_property_relations, relation.id, relation)
            /\ ret' = IF contains_key(id_property_relations, relation.id)
                      THEN "Abort"
                      ELSE "Ok"
            /\ UNCHANGED <<resources, entities, id_relations,
                           property_relations, assignment>>

\* the loop of check_violation without its continue: no entity is skipped
carriers_all(relation) == DOMAIN entities

\* the entities the loop of check_violation does not skip for a relation
carriers(relation) ==
    {k \in DOMAIN entities : relation.entity_property \in entities[k].properties}

\* an expect of check_violation fails: the assignment of a carrying entity is
\* missing, or names no resource
lookup_fails ==
    \E r \in DOMAIN property_relations :
        \E k \in carriers(property_relations[r]) :
            \/ ~contains_key(assignment, entities[k].id)
            \/ ~contains_key(resources, assignment[entities[k].id])

\* the test of the resource with the anti-affinity check put in: an
\* AntiAffinity relation is violated when the resource does carry the property
lacks_by_kind(relation, e) ==
    IF relation.kind = "Affinity"
    THEN relation.resource_property
             \notin resources[assignment[e.id]].properties
    ELSE relation.resource_property
             \in resources[assignment[e.id]].properties

\* the test of the resource without its negation
lacks_negated(relation, e) ==
    relation.resource_property \in resources[assignment[e.id]].properties

\* the test check_violation makes of a carrying entity: the resource it is
\* assigned to does not carry resource_property
lacks(relation, e) ==
    relation.resource_property \notin resources[assignment[e.id]].properties

\* the orders in which a HashMap with key set S may be iterated
orders(S) ==
    {s \in [1..Cardinality(S) -> S] :
        \A i, j \in 1..Cardinality(S) : s[i] = s[j] => i = j}

\* the inner loop with break in place of continue: the first entity that
\* does not carry entity_property ends the loop
RECURSIVE scan_entities_break(_, _, _)
scan_entities_break(relation, eo, acc) ==
    IF eo = <<>>
    THEN acc
    ELSE IF Head(eo) \notin carriers(relation)
    THEN acc
    ELSE scan_entities_break(relation, Tail(eo),
             IF lacks(relation, entities[Head(eo)])
             THEN acc \cup {relation.id}
             ELSE acc)

\* the inner loop of check_violation over the entities, in the order eo: acc
\* is property_violation so far
RECURSIVE scan_entities(_, _, _)
scan_entities(relation, eo, acc) ==
    IF eo = <<>>
    THEN acc
    ELSE scan_entities(relation, Tail(eo),
             IF Head(eo) \notin carriers(relation)
             THEN acc
             ELSE IF lacks(relation, entities[Head(eo)])
             THEN acc \cup {relation.id}
             ELSE acc)

\* check_violation extended to the id property relations: after the
\* property relations, each stored IDPropertyRelation whose entity sits on a
\* resource without resource_property is reported too
RECURSIVE scan_relations_and_id_property(_, _, _, _)
scan_relations_and_id_property(prs, ro, eo, acc) ==
    IF ro = <<>>
    THEN acc \cup
         {id_property_relations[q].id : q \in
             {q \in DOMAIN id_property_relations :
                 id_property_relations[q].resource_property \notin
                     resources[assignment[
                         id_property_relations[q].entity_id]].properties}}
    ELSE scan_relations_and_id_property(prs, Tail(ro), eo,
             scan_entities(prs[Head(ro)], eo, acc))

\* the outer loop of check_violation over the property relations prs, in
\* the order ro
RECURSIVE scan_relations(_, _, _, _)
scan_relations(prs, ro, eo, acc) ==
    IF ro = <<>>
    THEN acc
    ELSE scan_relations(prs, Tail(ro), eo,
                        scan_entities(prs[Head(ro)], eo, acc))

\* Board::check_violation; the maps are iterated in some order
check_violation ==
    /\ op' = "check_violation"
    /\ arg' = EmptyMap
    /\ UNCHANGED board
    /\ IF lookup_fails
       THEN /\ ret' = "Abort"
            /\ property_violation' = {}
       ELSE /\ ret' = "Ok"
            /\ \E ro \in orders(DOMAIN property_relations),
                  eo \in orders(DOMAIN entities) :
                   property_violation' =
                       scan_relations(property_relations, ro, eo, {})

\* no call has panicked
Running == ret # "Abort"

\* an insertion call is made while the Board holds fewer than MaxItems records
CanInsert == Running /\ BoardSize < MaxItems

CallAddResource ==
    \E resource \in Resource :
        CanInsert /\ add_resource(resource) /\ UNCHANGED record

CallAddEntity ==
    \E resource_id \in ResourceIds \cup {"app1"}, entity \in Entity :
        CanInsert /\ add_entity(resource_id, entity) /\ UNCHANGED record

CallAddIdRelation ==
    \E relation \in IDRelation :
        CanInsert /\ add_id_relation(relation) /\ UNCHANGED record

CallAddPropertyRelation ==
    \E relation \in PropertyRelation :
        CanInsert /\ add_property_relation(relation) /\ UNCHANGED record

CallAddIdPropertyRelation ==
    \E relation \in IDPropertyRelation :
        CanInsert /\ add_id_property_relation(relation) /\ UNCHANGED record

CallCheckViolation == Running /\ check_violation /\ UNCHANGED record

Next ==
    \/ CallAddResource
    \/ CallAddEntity
    \/ CallAddIdRelation
    \/ CallAddPropertyRelation
    \/ CallAddIdPropertyRelation
    \/ CallCheckViolation

Spec == Init /\ [][Next]_vars

----------------------------------------------------------------------------
(* The catalog records: a caller builds a Resource or an Entity with new   *)
(* and add_property and hands it to the Board, as tests::board_test does.  *)

\* Resource::new
Resource_new(id) ==
    /\ record' = [type |-> "Resource",
                  value |-> [id |-> id, properties |-> {},
                             capacities |-> EmptyMap]]
    /\ op' = "Resource::new"
    /\ arg' = id
    /\ ret' = "Ok"
    /\ UNCHANGED <<board, property_violation>>

\* Entity::new
Entity_new(id) ==
    /\ record' = [type |-> "Entity",
                  value |-> [id |-> id, properties |-> {},
                             metrics |-> EmptyMap, move_cost |-> 0]]
    /\ op' = "Entity::new"
    /\ arg' = id
    /\ ret' = "Ok"
    /\ UNCHANGED <<board, property_violation>>

\* add_property that drops what HashSet::insert returned
insert_ok_ignored(properties, p) == TRUE

\* what HashSet::insert returns, which add_property asserts: the tag was
\* not in the set
insert_ok(properties, p) == p \notin properties

\* Resource::add_property and Entity::add_property, which have the same
\* body: HashSet::insert leaves a set that holds the tag as it is
add_property(type, p) ==
    /\ record.type = type
    /\ record' = [record EXCEPT !.value.properties = @ \cup {p}]
    /\ op' = IF type = "Resource"
             THEN "Resource::add_property"
             ELSE "Entity::add_property"
    /\ arg' = p
    /\ ret' = IF insert_ok(record.value.properties, p) THEN "Ok" ELSE "Abort"
    /\ UNCHANGED <<board, property_violation>>

BuildResource ==
    \E id \in ResourceIds : Running /\ record = NoRecord /\ Resource_new(id)

BuildEntity ==
    \E id \in EntityIds : Running /\ record = NoRecord /\ Entity_new(id)

TagResource ==
    \E p \in Properties : Running /\ add_property("Resource", p)

TagEntity ==
    \E p \in Properties : Running /\ add_property("Entity", p)

\* the built Resource is moved into the Board
GiveResource ==
    /\ CanInsert
    /\ record.type = "Resource"
    /\ add_resource(record.value)
    /\ record' = NoRecord

\* the built Entity is moved into the Board
GiveEntity ==
    \E resource_id \in ResourceIds :
        /\ CanInsert
        /\ record.type = "Entity"
        /\ add_entity(resource_id, record.value)
        /\ record' = NoRecord

NextCatalog ==
    \/ BuildResource
    \/ BuildEntity
    \/ TagResource
    \/ TagEntity
    \/ GiveResource
    \/ GiveEntity

SpecCatalog == Init /\ [][NextCatalog]_vars

----------------------------------------------------------------------------
(* What the claims speak of.                                               *)

\* the registered entities that carry the relation's entity_property and sit
\* on a resource that does not carry its resource_property
failing(relation) ==
    {e \in DOMAIN entities :
        /\ relation.entity_property \in entities[e].properties
        /\ relation.resource_property
               \notin resources[assignment[e]].properties}

----------------------------------------------------------------------------
\* C1: in every reachable Board the keys of the assignment map are the keys
\* of the entities map and every assignment value is the id of a stored
\* resource; no registered entity is without an assignment.
C1_AssignmentTotal ==
    /\ DOMAIN assignment = DOMAIN entities
    /\ \A e \in DOMAIN assignment : assignment[e] \in DOMAIN resources

\* an entity is registered on one of two resources and a second add_entity
\* under its id, naming the other resource, has just failed
C1_Witness ==
    /\ op = "add_entity"
    /\ ret = "false"
    /\ arg.entity.id \in DOMAIN entities
    /\ arg.resource_id \in DOMAIN resources
    /\ assignment[arg.entity.id] # arg.resource_id

\* C2: when add_entity(r, e) returns success, assignment[e.id] = r and e is
\* stored under e.id, and neither entry existed before the call.
C2_AddEntityCouples ==
    [][(op' = "add_entity" /\ ret' = "true") =>
          /\ arg'.entity.id \notin DOMAIN entities
          /\ arg'.entity.id \notin DOMAIN assignment
          /\ DOMAIN entities' = DOMAIN entities \cup {arg'.entity.id}
          /\ DOMAIN assignment' = DOMAIN assignment \cup {arg'.entity.id}
          /\ entities'[arg'.entity.id] = arg'.entity
          /\ assignment'[arg'.entity.id] = arg'.resource_id]_vars

\* the second entity has just been added, to the resource the first is not on
C2_Witness ==
    /\ op = "add_entity"
    /\ ret = "true"
    /\ DOMAIN entities = EntityIds
    /\ \E e \in EntityIds : assignment[e] # arg.resource_id

\* C3: check_violation returns the id of every Affinity property relation
\* for which at least one registered entity carries entity_property and is
\* assigned to a resource that does not carry resource_property; the id is
\* one element of the returned set however many entities fail.
C3_AffinityDetected ==
    op = "check_violation" =>
        \A r \in DOMAIN property_relations :
            (/\ property_relations[r].kind = "Affinity"
             /\ failing(property_relations[r]) # {})
            => /\ property_relations[r].id \in property_violation
               /\ Cardinality({x \in property_violation :
                                   x = property_relations[r].id}) = 1

\* two entities fail the same Affinity relation and its id is the result
C3_Witness ==
    /\ op = "check_violation"
    /\ \E r \in DOMAIN property_relations :
           /\ property_relations[r].kind = "Affinity"
           /\ Cardinality(failing(property_relations[r])) = 2
           /\ property_violation = {property_relations[r].id}

\* C4: check_violation has no false positive: an id is in the returned set
\* only if it is the id of a stored property relation for which some
\* registered entity carries entity_property and sits on a resource that
\* lacks resource_property.
C4_NoFalsePositive ==
    op = "check_violation" =>
        \A x \in property_violation :
            \E r \in DOMAIN property_relations :
                /\ property_relations[r].id = x
                /\ failing(property_relations[r]) # {}

\* nothing is reported although a registered entity that does not carry
\* entity_property sits on a resource that lacks resource_property
C4_Witness ==
    /\ op = "check_violation"
    /\ ret = "Ok"
    /\ property_violation = {}
    /\ \E r \in DOMAIN property_relations :
           \E e \in DOMAIN entities :
               /\ property_relations[r].entity_property
                      \notin entities[e].properties
               /\ property_relations[r].resource_property
                      \notin resources[assignment[e]].properties

\* an IDRelation names an id that is not in the catalog its kind asks for
id_relation_dangles(relation) ==
    \/ /\ relation.kind \in EEKinds
       /\ \/ relation.id1 \notin DOMAIN entities
          \/ relation.id2 \notin DOMAIN entities
    \/ /\ relation.kind \in ERKinds
       /\ \/ relation.id1 \notin DOMAIN entities
          \/ relation.id2 \notin DOMAIN resources

\* C5 as stated: inserting a relation (add_id_relation of EE or ER kind,
\* add_id_property_relation) that names an id absent from the appropriate
\* catalog fails with NotFound and leaves the relation map unchanged.
C5_DanglingIsNotFound ==
    [][/\ (op' = "add_id_relation" /\ id_relation_dangles(arg'))
          => (ret' = "NotFound" /\ id_relations' = id_relations)
       /\ (op' = "add_id_property_relation"
             /\ arg'.entity_id \notin DOMAIN entities)
          => (ret' = "NotFound"
                /\ id_property_relations' = id_property_relations)]_vars

\* C5 amended: such an insertion fails and leaves the relation map
\* unchanged; the error is NotFound, except that add_id_relation answers
\* AlreadyExists when the relation's id is already a key of id_relations.
C5_DanglingIsRejected ==
    [][/\ (op' = "add_id_relation" /\ id_relation_dangles(arg'))
          => /\ ret' = IF arg'.id \in DOMAIN id_relations
                       THEN "AlreadyExists"
                       ELSE "NotFound"
             /\ id_relations' = id_relations
       /\ (op' = "add_id_property_relation"
             /\ arg'.entity_id \notin DOMAIN entities)
          => (ret' = "NotFound"
                /\ id_property_relations' = id_property_relations)]_vars

\* a relation whose id is stored and which names an id that is in no
\* catalog has just been answered AlreadyExists
C5_Witness ==
    /\ op = "add_id_relation"
    /\ ret = "AlreadyExists"
    /\ id_relation_dangles(arg)
    /\ id_relations[arg.id] # arg

\* C6: add_resource with an id that is already stored returns false and
\* leaves the stored record and the rest of the Board untouched; with an id
\* not yet stored it returns true and stores the resource under its id.
C6_AddResourceUnique ==
    [][op' = "add_resource" =>
          IF arg'.id \in DOMAIN resources
          THEN ret' = "false" /\ board' = board
          ELSE /\ ret' = "true"
               /\ DOMAIN resources' = DOMAIN resources \cup {arg'.id}
               /\ resources'[arg'.id] = arg'
               /\ \A k \in DOMAIN resources : resources'[k] = resources[k]
               /\ <<entities, id_relations, property_relations,
                    id_property_relations, assignment>>' =
                  <<entities, id_relations, property_relations,
                    id_property_relations, assignment>>]_vars

\* a resource with other properties than the stored one of the same id has
\* just been refused
C6_Witness ==
    /\ op = "add_resource"
    /\ ret = "false"
    /\ resources[arg.id].properties # arg.properties

\* C7: add_entity returns failure exactly when resource_id names no stored
\* resource, or entity.id is a key of the assignment map, or entity.id is a
\* key of the entities map; a failure leaves every map of the Board
\* unchanged, so an existing entity is never reassigned.
C7_AddEntityFailure ==
    [][op' = "add_entity" =>
          /\ ret' \in {"true", "false"}
          /\ ret' = "false" <=>
                 \/ arg'.resource_id \notin DOMAIN resources
                 \/ arg'.entity.id \in DOMAIN assignment
                 \/ arg'.entity.id \in DOMAIN entities
          /\ ret' = "false" => board' = board
          /\ \A e \in DOMAIN assignment :
                 /\ e \in DOMAIN assignment'
                 /\ assignment'[e] = assignment[e]]_vars

\* a registered entity has just been offered again, with other properties
\* and for another stored resource, and was refused
C7_Witness ==
    /\ op = "add_entity"
    /\ ret = "false"
    /\ arg.resource_id \in DOMAIN resources
    /\ arg.entity.id \in DOMAIN entities
    /\ entities[arg.entity.id] # arg.entity
    /\ assignment[arg.entity.id] # arg.resource_id

\* C8: add_id_relation returns AlreadyExists if the id is a key of
\* id_relations, whatever the references; otherwise NotFound if the kind is
\* EE and id1 or id2 is no stored entity, or the kind is ER and id1 is no
\* stored entity or id2 no stored resource; otherwise Ok, with the relation
\* stored under its id.  On either error id_relations is unchanged.
C8_AddIdRelationOutcome ==
    [][op' = "add_id_relation" =>
          IF arg'.id \in DOMAIN id_relations
          THEN ret' = "AlreadyExists" /\ id_relations' = id_relations
          ELSE IF id_relation_dangles(arg')
          THEN ret' = "NotFound" /\ id_relations' = id_relations
          ELSE /\ ret' = "Ok"
               /\ DOMAIN id_relations' = DOMAIN id_relations \cup {arg'.id}
               /\ id_relations'[arg'.id] = arg'
               /\ \A k \in DOMAIN id_relations :
                      id_relations'[k] = id_relations[k]]_vars

\* an ER relation whose id2 names an entity and no resource has just been
\* refused with NotFound
C8_Witness ==
    /\ op = "add_id_relation"
    /\ ret = "NotFound"
    /\ arg.kind \in ERKinds
    /\ arg.id1 \in DOMAIN entities
    /\ arg.id2 \in DOMAIN entities
    /\ arg.id2 \notin DOMAIN resources

\* C9: add_id_property_relation fails only with NotFound, and only when
\* entity_id names no stored entity; whenever entity_id names a stored
\* entity the call returns success, also when the relation's id is already
\* a key of id_property_relations.
C9_OnlyNotFound ==
    [][op' = "add_id_property_relation" =>
          IF arg'.entity_id \in DOMAIN entities
          THEN ret' = "Ok"
          ELSE ret' = "NotFound"]_vars

\* C10: no sequence of insertion calls reaches a failed internal assert;
\* every call returns a value, and a call that returns a failure leaves
\* the Board's maps, the record under a colliding id among them, unchanged.
C10_NoFatalAbort ==
    [][/\ ret' # "Abort"
       /\ ret' \in {"false", "AlreadyExists", "NotFound"} => board' = board
       /\ \A k \in DOMAIN id_property_relations :
              id_property_relations'[k] = id_property_relations[k]]_vars

\* C11: in every reachable Board the lookups of check_violation succeed:
\* each entity it inspects has an assignment entry that names a stored
\* resource, so check_violation never aborts.
C11_LookupsSucceed ==
    /\ ~lookup_fails
    /\ op = "check_violation" => ret = "Ok"

\* check_violation has returned after looking up two carrying entities
C11_Witness ==
    /\ op = "check_violation"
    /\ ret = "Ok"
    /\ \E r \in DOMAIN property_relations :
           Cardinality(carriers(property_relations[r])) = 2

\* C12: check_violation leaves every map of the Board unchanged, and a
\* second call right after a first returns the same set, whatever the
\* order in which the maps are iterated.
C12_PureRead ==
    [][op' = "check_violation" =>
          /\ board' = board
          /\ (op = "check_violation" /\ ret = "Ok") =>
                 (ret' = "Ok" /\ property_violation' = property_violation)]_vars

\* check_violation has reported a relation on a Board where one entity
\* carries entity_property and the other does not
C12_Witness ==
    /\ op = "check_violation"
    /\ property_violation # {}
    /\ \E r \in DOMAIN property_relations :
           /\ carriers(property_relations[r]) # {}
           /\ carriers(property_relations[r]) # DOMAIN entities

\* C13: add_property_relation fails with AlreadyExists if and only if the
\* relation's id is already a key of property_relations, and then leaves
\* the stored relation unchanged; otherwise it succeeds and stores the
\* relation, whatever its property values and whatever the catalog holds.
C13_AddPropertyRelationOutcome ==
    [][op' = "add_property_relation" =>
          IF arg'.id \in DOMAIN property_relations
          THEN ret' = "AlreadyExists" /\ board' = board
          ELSE /\ ret' = "Ok"
               /\ DOMAIN property_relations' =
                      DOMAIN property_relations \cup {arg'.id}
               /\ property_relations'[arg'.id] = arg'
               /\ \A k \in DOMAIN property_relations :
                      property_relations'[k] = property_relations[k]]_vars

\* a property relation has just been stored on a Board with no resource and
\* no entity
C13_Witness ==
    /\ op = "add_property_relation"
    /\ ret = "Ok"
    /\ DOMAIN resources = {}
    /\ DOMAIN entities = {}
    /\ property_relations[arg.id] = arg

\* C14: Resource::add_property and Entity::add_property insert the tag when
\* it is absent and abort when it is already in the record's property set;
\* nothing else of the record changes.
C14_AddPropertyAsserts ==
    [][op' \in {"Resource::add_property", "Entity::add_property"} =>
          /\ record'.type = record.type
          /\ record'.value.properties = record.value.properties \cup {arg'}
          /\ record' = [record EXCEPT
                            !.value.properties = record'.value.properties]
          /\ ret' = IF arg' \in record.value.properties
                    THEN "Abort"
                    ELSE "Ok"]_vars

\* an Entity that holds both tags has been given one of them again, and the
\* call aborted
C14_Witness ==
    /\ op = "Entity::add_property"
    /\ ret = "Abort"
    /\ record.type = "Entity"
    /\ record.value.properties = Properties

\* the sets check_violation can return on the present catalog and
\* assignment when the property relations are prs: one for each order of
\* iteration
check_violation_returns(prs) ==
    {scan_relations(prs, ro, eo, {}) :
        ro \in orders(DOMAIN prs), eo \in orders(DOMAIN entities)}

\* C15: check_violation does not evaluate IDRelations and
\* IDPropertyRelations: the set it returns holds only keys of
\* property_relations, and a successful add_id_relation or
\* add_id_property_relation leaves what check_violation returns unchanged.
C15_IdRelationsNotEvaluated ==
    [][/\ (op' = "check_violation" /\ ret' = "Ok")
          => property_violation' \subseteq DOMAIN property_relations
       /\ (op' \in {"add_id_relation", "add_id_property_relation"}
             /\ ret' = "Ok")
          => check_violation_returns(property_relations)' =
                 check_violation_returns(property_relations)]_vars

\* an Affinity id property relation has just been stored for an entity whose
\* resource does not carry the relation's resource_property
C15_Witness ==
    /\ op = "add_id_property_relation"
    /\ ret = "Ok"
    /\ arg.kind = "Affinity"
    /\ id_property_relations[arg.id] = arg
    /\ arg.resource_property
           \notin resources[assignment[arg.entity_id]].properties

\* C16: what check_violation returns does not depend on the kind of any
\* property relation: it is the same for every choice of kinds, and an
\* AntiAffinity relation is reported exactly when some carrying entity sits
\* on a resource that lacks resource_property.
C16_KindIgnored ==
    /\ \A kinds \in [DOMAIN property_relations -> PropertyRelationKind] :
           check_violation_returns(
               [r \in DOMAIN property_relations |->
                   [property_relations[r] EXCEPT !.kind = kinds[r]]])
           = check_violation_returns(property_relations)
    /\ op = "check_violation" =>
           \A r \in DOMAIN property_relations :
               property_relations[r].kind = "AntiAffinity" =>
                   (property_relations[r].id \in property_violation
                        <=> failing(property_relations[r]) # {})

\* an AntiAffinity relation is not reported although a carrying entity sits
\* on a resource that carries resource_property
C16_Witness ==
    /\ op = "check_violation"
    /\ property_violation = {}
    /\ \E r \in DOMAIN property_relations :
           /\ property_relations[r].kind = "AntiAffinity"
           /\ \E e \in carriers(property_relations[r]) :
                  property_relations[r].resource_property
                      \in resources[assignment[e]].properties

\* C17: the Board is append-only: across every step, each key of resources,
\* entities, assignment, id_relations, property_relations and
\* id_property_relations is still a key afterwards, with the same value.
C17_AppendOnly ==
    [][/\ \A k \in DOMAIN resources :
              k \in DOMAIN resources' /\ resources'[k] = resources[k]
       /\ \A k \in DOMAIN entities :
              k \in DOMAIN entities' /\ entities'[k] = entities[k]
       /\ \A k \in DOMAIN assignment :
              k \in DOMAIN assignment' /\ assignment'[k] = assignment[k]
       /\ \A k \in DOMAIN id_relations :
              k \in DOMAIN id_relations' /\ id_relations'[k] = id_relations[k]
       /\ \A k \in DOMAIN property_relations :
              /\ k \in DOMAIN property_relations'
              /\ property_relations'[k] = property_relations[k]
       /\ \A k \in DOMAIN id_property_relations :
              /\ k \in DOMAIN id_property_relations'
              /\ id_property_relations'[k] = id_property_relations[k]]_vars

\* C18: in every reachable state each stored IDRelation of an EE kind has
\* id1 and id2 among the entities, each stored IDRelation of an ER kind has
\* id1 among the entities and id2 among the resources, and each stored
\* IDPropertyRelation has entity_id among the entities.
C18_ReferentialIntegrity ==
    /\ \A k \in DOMAIN id_relations :
           /\ id_relations[k].id1 \in DOMAIN entities
           /\ id_relations[k].kind \in EEKinds
                  => id_relations[k].id2 \in DOMAIN entities
           /\ id_relations[k].kind \in ERKinds
                  => id_relations[k].id2 \in DOMAIN resources
    /\ \A k \in DOMAIN id_property_relations :
           id_property_relations[k].entity_id \in DOMAIN entities

\* an ER relation is stored and an insertion has since been refused with
\* NotFound
C18_Witness ==
    /\ ret = "NotFound"
    /\ \E k \in DOMAIN id_relations : id_relations[k].kind \in ERKinds

====
